---------------------------- MODULE Spec2Model ----------------------------
(***************************************************************************)
(* LinkedIn Article Poster (app.py + linkedin_poster_core.py).             *)
(*                                                                         *)
(* Text is a sequence of units (characters, or opaque multi-character      *)
(* chunks); " ", "\n" and "\t" are the whitespace units.  Python values of  *)
(* unknown shape are tagged records [t |-> tag, v |-> contents].           *)
(***************************************************************************)
EXTENDS Integers, Sequences, FiniteSets, TLC

(***************************************************************************)
(* Bounds of the model.                                                    *)
(***************************************************************************)
MaxRetriesBound == 2  \* largest max_retries given to the generation client
MaxLimit == 5         \* largest max_len given to safe_truncate
ExtraLen == 2         \* texts are at most MaxLimit + ExtraLen units long
MaxLogLines == 5      \* buttons are pressed while the session log is shorter than this

(***************************************************************************)
(* Program constants.                                                      *)
(***************************************************************************)
MAX_LINKEDIN_COMMENTARY_LENGTH == 3000
DEFAULT_MAX_RETRIES == 2

(***************************************************************************)
(* Text helpers: str.strip / str.rstrip.                                   *)
(***************************************************************************)
IsSpace(c) == c \in {" ", "\n", "\t"}

RECURSIVE RStrip(_)
RStrip(s) ==
    IF s = <<>> THEN <<>>
    ELSE IF IsSpace(s[Len(s)]) THEN RStrip(SubSeq(s, 1, Len(s) - 1))
    ELSE s

RECURSIVE LStrip(_)
LStrip(s) ==
    IF s = <<>> THEN <<>>
    ELSE IF IsSpace(s[1]) THEN LStrip(Tail(s))
    ELSE s

Strip(s) == RStrip(LStrip(s))

Ellipsis == <<".", ".", ".">>

(***************************************************************************)
(* safe_truncate(text, max_len)                                            *)
(***************************************************************************)
\* slip: the ellipsis is appended to max_len kept units
SafeTruncateOverLimit(text, max_len) ==
    IF Len(text) <= max_len THEN text
    ELSE RStrip(SubSeq(text, 1, max_len)) \o Ellipsis

SafeTruncate(text, max_len) ==
    IF Len(text) <= max_len THEN text
    ELSE RStrip(SubSeq(text, 1, max_len - Len(Ellipsis))) \o Ellipsis

(***************************************************************************)
(* Python values met by the Response Extractor.                            *)
(***************************************************************************)
Absent  == [t |-> "absent", v |-> <<>>]   \* no such attribute / key
PyNone  == [t |-> "none", v |-> <<>>]
NonStr  == [t |-> "num", v |-> <<>>]      \* a truthy value that is no str, list or dict
Raises  == [t |-> "raise", v |-> <<>>]    \* attribute whose access raises (not AttributeError)
StrV(s) == [t |-> "str", v |-> s]
ListV(l) == [t |-> "list", v |-> l]

IsStr(x) == x.t = "str"
IsList(x) == x.t = "list"
\* Python truthiness, as used by `a or b or c`
Truthy(x) ==
    CASE x.t \in {"absent", "none"} -> FALSE
      [] x.t \in {"str", "list"} -> x.v # <<>>
      [] OTHER -> TRUE

\* Outcome of a piece of code: a returned value, a raised exception, or
\* falling through to the next statement.
Ret(x) == [k |-> "return", v |-> x]
Exc(e) == [k |-> "raise", v |-> e]
Next0  == [k |-> "next", v |-> PyNone]

\* isinstance(x, str) and x.strip()
GoodStr(x) == IsStr(x) /\ Strip(x.v) # <<>>

\* first of the outcomes that is not "fall through"
RECURSIVE FirstOutcome(_)
FirstOutcome(os) ==
    IF os = <<>> THEN Next0
    ELSE IF os[1].k # "next" THEN os[1]
    ELSE FirstOutcome(Tail(os))

\* hasattr(o, a) and isinstance(o.a, str) and o.a.strip(): return o.a.strip()
ProbeAttr(val) ==
    IF val.t = "raise" THEN Exc("ValueError")
    ELSE IF GoodStr(val) THEN Ret(StrV(Strip(val.v)))
    ELSE Next0

\* key in d and isinstance(d[key], str) and d[key].strip(): return d[key].strip()
ProbeKey(val) ==
    IF GoodStr(val) THEN Ret(StrV(Strip(val.v))) ELSE Next0

\* lines 149-150
Rule1(resp) == ProbeAttr(resp.a_text)

\* lines 152-154
Rule2(resp) == FirstOutcome(<<ProbeKey(resp.k_text), ProbeKey(resp.k_content)>>)

\* line 155: resp.get("candidates") or resp.get("outputs") or resp.get("choices")
DictCandidates(resp) ==
    IF Truthy(resp.k_candidates) THEN resp.k_candidates
    ELSE IF Truthy(resp.k_outputs) THEN resp.k_outputs
    ELSE resp.k_choices

\* slip: "content" probed before "output"
ElemKeysSwapped(first) ==
    FirstOutcome(<<ProbeKey(first.content), ProbeKey(first.output), ProbeKey(first.text)>>)

\* lines 159-161
ElemKeys(first) ==
    FirstOutcome(<<ProbeKey(first.output), ProbeKey(first.content), ProbeKey(first.text)>>)

\* lines 155-163
Rule3(resp) ==
    LET candidates == DictCandidates(resp) IN
    IF IsList(candidates) /\ candidates.v # <<>> THEN
        LET first == candidates.v[1] IN
        FirstOutcome(<<
            IF first.kind = "dict" THEN ElemKeys(first) ELSE Next0,
            IF first.kind = "str" /\ Strip(first.s) # <<>>
                THEN Ret(StrV(Strip(first.s))) ELSE Next0 >>)
    ELSE Next0

\* lines 164-172
Rule4(resp) ==
    IF resp.a_candidates.t = "absent" THEN Next0
    ELSE IF resp.a_candidates.t = "raise" THEN Exc("ValueError")
    ELSE LET c == resp.a_candidates IN
         IF IsList(c) /\ c.v # <<>> THEN
             LET first == c.v[1] IN
             IF first.kind = "obj"
             THEN FirstOutcome(<<ProbeAttr(first.content), ProbeAttr(first.output),
                                 ProbeAttr(first.text)>>)
             ELSE Next0
         ELSE Next0

\* the body of the try block, lines 149-172
ExtractBody(resp) ==
    FirstOutcome(<<
        Rule1(resp),
        IF resp.is_dict THEN FirstOutcome(<<Rule2(resp), Rule3(resp)>>) ELSE Next0,
        Rule4(resp) >>)

(***************************************************************************)
(* extract_text_from_gemini_response(resp): the outcome of the call.       *)
(***************************************************************************)
extract_text_from_gemini_response(resp) ==
    LET b == ExtractBody(resp) IN
    IF b.k = "return" THEN b ELSE Ret(PyNone)


(***************************************************************************)
(* generate_article_with_gemini(prompt_text, model_name, api_key,          *)
(* max_retries).  `backend` gives, for each call of model.generate_content *)
(* in order, what the generation service does: [exc |-> e] when the call   *)
(* raises e, [exc |-> "", resp |-> r] when it returns r.                   *)
(***************************************************************************)
BackendRaises(e) == [exc |-> e, resp |-> <<>>]
BackendReturns(r) == [exc |-> "", resp |-> r]

\* lines 192-195, given the outcome of the extractor
AfterExtract(out) ==
    IF out.k = "raise" THEN out
    ELSE IF Truthy(out.v) THEN Ret(out.v.v)
    ELSE Exc("ValueError")

\* lines 187-195: one pass through the try block
Attempt(o) ==
    IF o.exc # "" THEN Exc(o.exc)
    ELSE AfterExtract(extract_text_from_gemini_response(o.resp))

\* line 184: while attempt <= max_retries
LoopGuard(attempt, max_retries) == attempt <= max_retries

\* slip: gives up one attempt early
OnLastAttemptOffByOne(attempt, max_retries) == attempt >= max_retries

\* line 198: if attempt > max_retries: raise
OnLastAttempt(attempt, max_retries) == attempt > max_retries

EvAttempt(n) == [e |-> "attempt", n |-> n]
EvSleep(n) == [e |-> "sleep", n |-> n]

\* lines 183-202; `trace` is the sequence of backend calls and sleeps so far,
\* RetryLoop is the loop test, AfterAttempt what follows the attempt's outcome r
RECURSIVE RetryLoop(_, _, _, _)
RECURSIVE AfterAttempt(_, _, _, _, _)
AfterAttempt(attempt, backend, max_retries, trace, r) ==
    IF r.k = "return" THEN [k |-> "return", v |-> r.v, trace |-> trace]
    ELSE IF OnLastAttempt(attempt, max_retries)
    THEN [k |-> "raise", v |-> r.v, trace |-> trace]
    ELSE RetryLoop(attempt, backend, max_retries, Append(trace, EvSleep(attempt)))

RetryLoop(attempt, backend, max_retries, trace) ==
    IF ~LoopGuard(attempt, max_retries)
    THEN [k |-> "raise", v |-> "RuntimeError", trace |-> trace]
    ELSE AfterAttempt(attempt + 1, backend, max_retries,
                      Append(trace, EvAttempt(attempt + 1)),
                      IF attempt + 1 \in DOMAIN backend
                      THEN Attempt(backend[attempt + 1]) ELSE Exc("ValueError"))

generate_article_with_gemini(genai_available, backend, max_retries) ==
    IF ~genai_available
    THEN [k |-> "raise", v |-> "RuntimeError", trace |-> <<>>]
    ELSE RetryLoop(0, backend, max_retries, <<>>)

Attempts(r) == Cardinality({i \in DOMAIN r.trace : r.trace[i].e = "attempt"})
Sleeps(r) == Cardinality({i \in DOMAIN r.trace : r.trace[i].e = "sleep"})

(***************************************************************************)
(* Inputs of the unit-level specification.                                 *)
(***************************************************************************)
Alphabet == {"a", " "}
Texts == UNION {[1..n -> Alphabet] : n \in 0..(MaxLimit + ExtraLen)}
Limits == Len(Ellipsis)..MaxLimit

Good(name) == StrV(<<" ", name, "\n">>)
Blank == StrV(<<" ", "\n">>)
SlotVals(name) == {Absent, Good(name), Blank, NonStr}
AttrVals(name) == SlotVals(name) \cup {Raises}

Elem(kind, s, o, c, t) == [kind |-> kind, s |-> s, output |-> o, content |-> c, text |-> t]
DictElems == {Elem("dict", <<>>, o, c, t) :
                 o \in SlotVals("first[output]"), c \in SlotVals("first[content]"),
                 t \in SlotVals("first[text]")}
ObjElems == {Elem("obj", <<>>, o, c, t) :
                 o \in AttrVals("first.output"), c \in AttrVals("first.content"),
                 t \in AttrVals("first.text")}
StrElems == {Elem("str", <<" ", "first", " ">>, Absent, Absent, Absent),
             Elem("str", <<" ">>, Absent, Absent, Absent)}
NumElem == Elem("num", <<>>, Absent, Absent, Absent)
GoodDictElem == Elem("dict", <<>>, Good("first[output]"), Absent, Good("first[text]"))
GoodObjElem == Elem("obj", <<>>, Absent, Good("first.content"), Good("first.text"))
GoodStrElem == Elem("str", <<" ", "first", " ">>, Absent, Absent, Absent)

Resp(isd, at, ac, kt, kc, kca, ko, kch) ==
    [is_dict |-> isd, a_text |-> at, a_candidates |-> ac, k_text |-> kt,
     k_content |-> kc, k_candidates |-> kca, k_outputs |-> ko, k_choices |-> kch]

EmptyMapping == Resp(TRUE, Absent, Absent, Absent, Absent, Absent, Absent, Absent)

\* responses exercising rules 1 and 2 against each other and against 3 and 4
Responses12 ==
    {Resp(TRUE, at, ac, kt, kc, kca, Absent, Absent) :
        at \in AttrVals("resp.text"),
        ac \in {Absent, Raises, ListV(<<GoodObjElem>>)},
        kt \in SlotVals("resp[text]"), kc \in SlotVals("resp[content]"),
        kca \in {Absent, ListV(<<GoodDictElem>>)}}
    \cup
    {Resp(FALSE, at, ac, Absent, Absent, Absent, Absent, Absent) :
        at \in AttrVals("resp.text"),
        ac \in {Absent, Raises, ListV(<<GoodObjElem>>)}}

\* responses exercising rule 3
KeyLists(e) == {Absent, PyNone, ListV(<<>>), NonStr, ListV(<<e>>)}
Responses3 ==
    {Resp(TRUE, Absent, Absent, Absent, Absent, kca, ko, kch) :
        kca \in KeyLists(GoodDictElem), ko \in KeyLists(GoodStrElem),
        kch \in KeyLists(Elem("dict", <<>>, Absent, Absent, Good("choices[0][text]")))}
    \cup
    {Resp(TRUE, Absent, ac, Absent, Absent, ListV(l), Absent, Absent) :
        ac \in {Absent, ListV(<<GoodObjElem>>)},
        l \in {<<e>> : e \in DictElems \cup StrElems \cup {NumElem, GoodObjElem}}
              \cup {<<NumElem, GoodDictElem>>, <<GoodStrElem, GoodDictElem>>}}

\* responses exercising rule 4
Responses4 ==
    {Resp(isd, Absent, ac, Absent, Absent, Absent, Absent, Absent) :
        isd \in BOOLEAN,
        ac \in {ListV(<<e>>) : e \in ObjElems \cup {GoodDictElem, GoodStrElem, NumElem}}
               \cup {PyNone, NonStr, ListV(<<>>), ListV(<<NumElem, GoodObjElem>>)}}

Responses == Responses12 \cup Responses3 \cup Responses4

\* what one call of the generation service may do
GoodResponse == Resp(FALSE, Good("generated"), Absent, Absent, Absent, Absent, Absent, Absent)
AttemptOutcomes ==
    {BackendRaises("ConnectionError"), BackendReturns(GoodResponse), BackendReturns(EmptyMapping)}
Backends(max_retries) == [1..(max_retries + 1) -> AttemptOutcomes]


(***************************************************************************)
(* The Streamlit session.                                                  *)
(*                                                                         *)
(* Every user interaction reruns the script from the top with the widget   *)
(* values of that moment.  A rerun caused by editing a widget has both     *)
(* buttons False and touches no session state, so it is folded into the    *)
(* next click: a click run draws the widget values it is delivered with.   *)
(***************************************************************************)
VARIABLES
    BACKEND_MODULE,   \* import linkedin_poster_core succeeded
    backend_attrs,    \* the functions linkedin_poster_core exposes (hasattr)
    GENAI_AVAILABLE,  \* import google.generativeai succeeded
    widgets,          \* widget values read by the last script run
    session_state,    \* st.session_state
    file,             \* contents of the save file
    clicked,          \* the button that caused the last script run
    calls,            \* collaborator calls made by the last script run, in order
    payload,          \* payload built by the last script run
    fn, fn_in, fn_out \* unit level: helper applied, its arguments and outcome

vars == <<BACKEND_MODULE, backend_attrs, GENAI_AVAILABLE, widgets, session_state,
          file, clicked, calls, payload, fn, fn_in, fn_out>>
env_vars == <<BACKEND_MODULE, backend_attrs, GENAI_AVAILABLE>>
ui_vars == <<widgets, session_state, file, clicked, calls, payload>>
fn_vars == <<fn, fn_in, fn_out>>

\* lines 72-81: default of the prompt text area, one opaque chunk
DefaultPrompt == <<"Generate a professional and engaging article ...">>
Prompts == {DefaultPrompt, <<"X">>}
OrgIds == {"", "12345"}
GeminiKeys == {"", "gk"}
LinkedinKeys == {"", "lk"}
SavePaths == {"", "article.txt"}

\* lines 130-137
MOCK_ARTICLE ==
    <<"Introduction", "\n", "\n",
      "Cloud-native technologies are transforming how enterprises design, deploy, and operate software...",
      "\n", "(This is a placeholder article used when Gemini is not available.)">>

\* slip: the prompt header is left out
MockArticleNoHeader(p) == MOCK_ARTICLE

\* lines 279, 282: f"# Prompt\n{prompt}\n\n" + MOCK_ARTICLE
MockArticleFor(p) == <<"# Prompt", "\n">> \o p \o <<"\n", "\n">> \o MOCK_ARTICLE

\* linkedin_poster_core.generate_article as shipped
ShimArticleFor(p) ==
    <<"# Prompt", "\n">> \o p \o <<"\n", "\n">>
        \o <<"Generated article placeholder. Replace with a real generator.">>

NoPayload == [author |-> <<>>]
NoFile == <<"<no file>">>

\* line 125-127
Log(line, arg) == [line |-> line, arg |-> arg]

\* lines 104-106: publish_disabled = dry_run or (not linkedin_key)
\* slip: the dry-run box is left out of the test
publish_disabled_key_only(w) == w.linkedin_key = ""

publish_disabled(w) == w.dry_run \/ w.linkedin_key = ""

\* a or b on strings
StrOr(a, b) == IF a # "" THEN a ELSE b

(***************************************************************************)
(* State after the first script run (lines 63-123): widget defaults, an    *)
(* empty session; the two imports have succeeded or not.                   *)
(***************************************************************************)
EnvInit ==
    /\ BACKEND_MODULE \in BOOLEAN
    /\ backend_attrs \in IF BACKEND_MODULE
                         THEN (SUBSET {"generate_article", "post_to_linkedin"}) \ {{}}
                         ELSE {{}}
    /\ GENAI_AVAILABLE \in BOOLEAN

UiInit ==
    /\ widgets = [prompt |-> DefaultPrompt, org_id_override |-> "", gemini_key |-> "",
                  linkedin_key |-> "", save_path |-> "article.txt", dry_run |-> TRUE]
    /\ session_state = [generated_article |-> <<>>, logs |-> <<>>,
                        gemini_key |-> "", linkedin_key |-> ""]
    /\ file = NoFile
    /\ clicked = "none"
    /\ calls = <<>>
    /\ payload = NoPayload

FnIdle == fn = "none" /\ fn_in = <<>> /\ fn_out = <<>>

Init == EnvInit /\ UiInit /\ FnIdle


(***************************************************************************)
(* Generate handler, lines 254-294.                                        *)
(***************************************************************************)
\* a collaborator call: `live` says whether it reached the platform, exc is
\* the exception it raised ("" for none), val what the resolver returned
Call(op, live) == [op |-> op, live |-> live, exc |-> "", val |-> <<>>]

\* what a call of linkedin_poster_core.generate_article may do: return the
\* shipped placeholder or another text, reject the call (TypeError), or fail
GenOverrideOutcomes == {Ret("shim"), Ret("custom"), Exc("TypeError"), Exc("RuntimeError")}
NotCalled == [k |-> "not called", v |-> ""]
OverrideText(v, p) == IF v = "shim" THEN ShimArticleFor(p) ELSE <<"custom article">>

\* line 262
UsesGenerateOverride == BACKEND_MODULE /\ "generate_article" \in backend_attrs

\* line 272, with the session key as stored by line 257
UsesGemini(gk) == GENAI_AVAILABLE /\ gk # ""

\* lines 262-269: the outcome of the override path
\* [k, v, logs, calls]: k = "return" with the article text v, or "raise"
OverridePath(w, kw, pos) ==
    LET started == <<Log("[info] Using external backend module for generation.", <<>>)>>
        done == <<Log("[info] Generation completed using backend module.", <<>>)>>
        c1 == <<Call("generate_article(prompt, model, gemini_api_key=)", FALSE)>>
        c2 == c1 \o <<Call("generate_article(prompt, model)", FALSE)>>
    IN  IF kw.k = "return"
        THEN [k |-> "return", v |-> OverrideText(kw.v, w.prompt),
              logs |-> started \o done, calls |-> c1]
        ELSE IF kw.v = "TypeError"
        THEN IF pos.k = "return"
             THEN [k |-> "return", v |-> OverrideText(pos.v, w.prompt),
                   logs |-> started \o done, calls |-> c2]
             ELSE [k |-> "raise", v |-> pos.v, logs |-> started, calls |-> c2]
        ELSE [k |-> "raise", v |-> kw.v, logs |-> started, calls |-> c1]

\* lines 273-279: the Generation Client, with the placeholder as fallback
GeminiPath(w, backend) ==
    LET r == generate_article_with_gemini(GENAI_AVAILABLE, backend, DEFAULT_MAX_RETRIES)
        started == <<Log("[info] Generating via Gemini (remote).", <<>>)>>
        cs == [i \in 1..Attempts(r) |-> Call("generate_content", FALSE)]
    IN  IF r.k = "return"
        THEN [k |-> "return", v |-> r.v,
              logs |-> started \o <<Log("[info] Gemini generation succeeded.", <<>>)>>,
              calls |-> cs]
        ELSE [k |-> "return", v |-> MockArticleFor(w.prompt),
              logs |-> started \o <<Log("[warn] Gemini generation failed. Falling back to mock.", r.v)>>,
              calls |-> cs]

\* lines 281-282
MockPath(w) ==
    [k |-> "return", v |-> MockArticleFor(w.prompt),
     logs |-> <<Log("[info] Using local mock generation (no Gemini client or key).", <<>>)>>,
     calls |-> <<>>]

\* lines 262-282
GeneratePath(w, gk, kw, pos, backend) ==
    IF UsesGenerateOverride THEN OverridePath(w, kw, pos)
    ELSE IF UsesGemini(gk) THEN GeminiPath(w, backend)
    ELSE MockPath(w)

\* slip: an article already in session is kept
StoreArticleKeepNonEmpty(old, new) == IF old # <<>> THEN old ELSE new

\* line 284: st.session_state.generated_article = article_text
StoreArticle(old, new) == new

\* lines 286-292
SaveLogs(w, write_ok) ==
    IF w.save_path = "" THEN <<>>
    ELSE IF write_ok THEN <<Log("[success] Saved generated article to", w.save_path)>>
    ELSE <<Log("[error] Could not save file:", "OSError")>>

\* lines 254-294: the whole handler; returns the state it leaves
GenerateHandler(ss, f, w, kw, pos, backend, write_ok) ==
    LET gk == StrOr(w.gemini_key, ss.gemini_key)        \* line 257
        lk == StrOr(w.linkedin_key, ss.linkedin_key)    \* line 258
        r == GeneratePath(w, gk, kw, pos, backend)
        logs0 == Append(ss.logs, Log("[info] Generation started...", <<>>))
    IN  IF r.k = "return"
        THEN [session_state |->
                 [generated_article |-> StoreArticle(ss.generated_article, r.v),
                  logs |-> logs0 \o r.logs \o SaveLogs(w, write_ok),
                  gemini_key |-> gk, linkedin_key |-> lk],
              file |-> IF w.save_path # "" /\ write_ok THEN r.v ELSE f,
              calls |-> r.calls]
        ELSE [session_state |->
                 [generated_article |-> ss.generated_article,
                  logs |-> logs0 \o r.logs \o <<Log("[error] Generation failed:", r.v)>>,
                  gemini_key |-> gk, linkedin_key |-> lk],
              file |-> f,
              calls |-> r.calls]

\* the log may grow without bound; clicks are explored while it is short
CanClick == Len(session_state.logs) < MaxLogLines

GenerateWidgets ==
    {[widgets EXCEPT !.prompt = p, !.gemini_key = g, !.linkedin_key = l, !.save_path = sp] :
        p \in Prompts, g \in GeminiKeys, l \in LinkedinKeys, sp \in SavePaths}

\* the generate button is pressed: one script run with generate_btn True
GenerateClick ==
    /\ CanClick
    /\ \E w \in GenerateWidgets :
       LET gk == StrOr(w.gemini_key, session_state.gemini_key) IN
       \E kw \in (IF UsesGenerateOverride THEN GenOverrideOutcomes ELSE {NotCalled}) :
       \E pos \in (IF UsesGenerateOverride /\ kw = Exc("TypeError")
                   THEN GenOverrideOutcomes ELSE {NotCalled}) :
       \E backend \in (IF ~UsesGenerateOverride /\ UsesGemini(gk)
                       THEN Backends(DEFAULT_MAX_RETRIES) ELSE {<<>>}) :
       \E write_ok \in (IF w.save_path # "" THEN BOOLEAN ELSE {TRUE}) :
           LET r == GenerateHandler(session_state, file, w, kw, pos, backend, write_ok) IN
           /\ widgets' = w
           /\ session_state' = r.session_state
           /\ file' = r.file
           /\ calls' = r.calls
           /\ payload' = NoPayload
           /\ clicked' = "generate"
    /\ UNCHANGED <<env_vars, fn_vars>>


(***************************************************************************)
(* Organization Resolver, lines 209-222.  A URN string is the sequence of  *)
(* its colon-separated segments ("" is <<"">>); <<>> stands for a missing  *)
(* key (el.get gives None).                                                *)
(***************************************************************************)
GetCall(exc, val) ==
    [op |-> "GET organizationalEntityAcls", live |-> TRUE, exc |-> exc, val |-> val]
OrgNone == [t |-> "none", v |-> ""]
OrgStr(id) == [t |-> "str", v |-> id]
UrnTruthy(u) == u # <<>> /\ u # <<"">>
Element(t1, t2) == [organizationalTarget |-> t1, organizationalTarget_tilde |-> t2]

\* line 216: el.get("organizationalTarget") or el.get("organizationalTarget~")
OrgUrn(el) ==
    IF UrnTruthy(el.organizationalTarget) THEN el.organizationalTarget
    ELSE el.organizationalTarget_tilde

\* lines 215-220
RECURSIVE ScanElements(_)
ScanElements(elements) ==
    IF elements = <<>> THEN OrgNone
    ELSE LET org_urn == OrgUrn(elements[1]) IN
         IF UrnTruthy(org_urn) THEN OrgStr(org_urn[Len(org_urn)])
         ELSE ScanElements(Tail(elements))

\* `get` is what the GET does: GetRaises(e) (transport error, or
\* raise_for_status on a non-2xx answer) or GetReturns(elements)
GetRaises(e) == [exc |-> e, elements |-> <<>>]
GetReturns(l) == [exc |-> "", elements |-> l]

get_linkedin_org_id(get) ==
    IF get.exc # "" THEN Exc(get.exc) ELSE Ret(ScanElements(get.elements))

Urn(id) == <<"urn", "li", "organization", id>>
ElementLists ==
    { <<>>,
      <<Element(Urn("777"), <<>>)>>,
      <<Element(<<>>, <<>>), Element(<<"">>, Urn("888"))>>,
      <<Element(Urn(""), <<>>), Element(Urn("777"), <<>>)>> }
GetOutcomes ==
    {GetRaises("HTTPError"), GetRaises("ConnectionError")} \cup {GetReturns(l) : l \in ElementLists}

(***************************************************************************)
(* Payload Builder, lines 224-237.                                         *)
(***************************************************************************)
build_ugc_payload(org_id, text) ==
    [author |-> <<"urn:li:organization:", org_id>>,
     lifecycleState |-> "PUBLISHED",
     shareCommentary |-> SafeTruncate(text, MAX_LINKEDIN_COMMENTARY_LENGTH),
     shareMediaCategory |-> "NONE",
     visibility |-> "PUBLIC"]

(***************************************************************************)
(* Publisher, lines 239-250: one POST.  `post` is what the POST does:      *)
(* Exc(e), or Ret("json") / Ret("not json") for a 2xx answer.              *)
(***************************************************************************)
PostOutcomes == {Ret("json"), Ret("not json"), Exc("HTTPError"), Exc("ConnectionError")}

post_to_linkedin_api(pl, bearer_token, post) ==
    IF post.k = "raise" THEN post
    ELSE IF post.v = "json" THEN Ret("resp.json()")
    ELSE Ret("status_code and headers")

(***************************************************************************)
(* Publish handler, lines 296-346.                                         *)
(***************************************************************************)
\* what a call of linkedin_poster_core.post_to_linkedin may do; `live` says
\* whether the call submitted the post to the platform before it ended.
\* The shipped shim returns a mocked result without any network call; a
\* replacement may post and return, may reject the keyword argument before
\* its body runs (TypeError, nothing posted), or may raise after posting.
Over(k, v, live) == [k |-> k, v |-> v, live |-> live]
PostOverrideOutcomes ==
    {Over("return", "mocked", FALSE), Over("return", "posted", TRUE),
     Over("raise", "TypeError", FALSE), Over("raise", "TypeError", TRUE),
     Over("raise", "HTTPError", TRUE), Over("raise", "ConnectionError", TRUE)}
PostNotCalled == Over("not called", "", FALSE)
OverCall(op, o) ==
    [op |-> op, live |-> o.live, exc |-> IF o.k = "raise" THEN o.v ELSE "", val |-> <<>>]

\* line 308
UsesPublishOverride == BACKEND_MODULE /\ "post_to_linkedin" \in backend_attrs

\* line 312: except TypeError -> call again without the key
RetriesPositionally(kw) == kw.k = "raise" /\ kw.v = "TypeError"

\* lines 309-316; [logs, calls, payload, exc]: exc = "" when nothing propagates
PublishOverridePath(kw, pos) ==
    LET started == <<Log("[info] Using external backend module for posting.", <<>>)>>
        done(resp) == <<Log("[success] Published using backend module. Response (truncated):", <<>>),
                        Log("json.dumps(response)", resp)>>
        c1 == <<OverCall("post_to_linkedin(article, org_id=, linkedin_api_key=)", kw)>>
        c2 == c1 \o <<OverCall("post_to_linkedin(article, org_id=)", pos)>>
    IN  IF kw.k = "return"
        THEN [logs |-> started \o done(kw.v), calls |-> c1, payload |-> NoPayload, exc |-> ""]
        ELSE IF RetriesPositionally(kw)
        THEN IF pos.k = "return"
             THEN [logs |-> started \o done(pos.v), calls |-> c2, payload |-> NoPayload, exc |-> ""]
             ELSE [logs |-> started, calls |-> c2, payload |-> NoPayload, exc |-> pos.v]
        ELSE [logs |-> started, calls |-> c1, payload |-> NoPayload, exc |-> kw.v]

\* slip: the check of the resolver's result is skipped
NoOrgFoundNever(org_id) == FALSE

\* line 324: if not org_id
NoOrgFound(org_id) == org_id.t = "none" \/ org_id.v = ""

\* lines 323-329, given the outcome r of get_linkedin_org_id
AfterResolver(r) ==
    IF r.k = "raise"
    THEN [k |-> "raise", v |-> r.v, calls |-> <<GetCall(r.v, OrgNone)>>,
          logs |-> <<Log("[error] Could not auto-detect org id:", r.v)>>]
    ELSE IF NoOrgFound(r.v)
    THEN [k |-> "raise", v |-> "RuntimeError", calls |-> <<GetCall("", r.v)>>,
          logs |-> <<Log("[error] Could not auto-detect org id:", "RuntimeError")>>]
    ELSE [k |-> "return", v |-> r.v.v, calls |-> <<GetCall("", r.v)>>,
          logs |-> <<Log("[info] Auto-detected org id:", r.v.v)>>]

\* lines 320-329: [k, v, logs, calls]
ResolveOrg(w, get) ==
    IF w.org_id_override # ""
    THEN [k |-> "return", v |-> w.org_id_override, logs |-> <<>>, calls |-> <<>>]
    ELSE AfterResolver(get_linkedin_org_id(get))

\* lines 331-341
BuildAndSend(w, lk, article, org_id, post) ==
    LET pl == build_ugc_payload(org_id, article) IN
    IF w.dry_run
    THEN [logs |-> <<Log("[dry-run] Dry run enabled. Payload preview (truncated):", <<>>),
                     Log("json.dumps(payload)", pl)>>,
          calls |-> <<>>, payload |-> pl, exc |-> ""]
    ELSE LET r == post_to_linkedin_api(pl, lk, post)
             sending == <<Log("[info] Sending post to LinkedIn API.", <<>>)>>
             cs == <<[op |-> "POST ugcPosts", live |-> TRUE,
                      exc |-> IF r.k = "raise" THEN r.v ELSE "", val |-> <<>>]>>
         IN  IF r.k = "return"
             THEN [logs |-> sending \o
                            <<Log("[success] Posted to LinkedIn. Response (truncated):", <<>>),
                              Log("json.dumps(resp)", r.v)>>,
                   calls |-> cs, payload |-> pl, exc |-> ""]
             ELSE [logs |-> sending, calls |-> cs, payload |-> pl, exc |-> r.v]

\* lines 318-341
BuiltinPath(w, lk, article, get, post) ==
    LET o == ResolveOrg(w, get) IN
    IF o.k = "raise"
    THEN [logs |-> o.logs, calls |-> o.calls, payload |-> NoPayload, exc |-> o.v]
    ELSE LET b == BuildAndSend(w, lk, article, o.v, post) IN
         [logs |-> o.logs \o b.logs, calls |-> o.calls \o b.calls,
          payload |-> b.payload, exc |-> b.exc]

\* slip: the key check is skipped
KeyMissingNever(lk) == FALSE

\* line 304: if not st.session_state.linkedin_key
KeyMissing(lk) == lk = ""

\* line 299: if not article_to_post
NoArticle(article_to_post) == article_to_post = <<>>

\* lines 342-346
Caught(exc) ==
    IF exc = "" THEN <<>>
    ELSE IF exc = "HTTPError" THEN <<Log("[http-error]", "he.response.text")>>
    ELSE <<Log("[error] Publishing failed:", exc)>>

\* lines 307-346, given what the try block did
AfterPublish(ss, lk, logs0, b) ==
    [session_state |->
        [ss EXCEPT !.linkedin_key = lk, !.logs = logs0 \o b.logs \o Caught(b.exc)],
     calls |-> b.calls, payload |-> b.payload]

\* lines 296-346: the whole handler; returns the state it leaves
PublishHandler(ss, w, get, kw, pos, post) ==
    LET logs0 == Append(ss.logs, Log("[info] Publishing started...", <<>>))
        article_to_post == ss.generated_article
        lk == StrOr(w.linkedin_key, ss.linkedin_key)      \* line 303
    IN  IF NoArticle(article_to_post)
        THEN [session_state |->
                 [ss EXCEPT !.logs = Append(logs0,
                      Log("[warn] No generated article found. Generate first.", <<>>))],
              calls |-> <<>>, payload |-> NoPayload]
        ELSE IF KeyMissing(lk)
        THEN [session_state |->
                 [ss EXCEPT !.linkedin_key = lk, !.logs = Append(logs0,
                      Log("[error] LinkedIn API key missing. Provide token in API Keys field.", <<>>))],
              calls |-> <<>>, payload |-> NoPayload]
        ELSE AfterPublish(ss, lk, logs0,
                          IF UsesPublishOverride THEN PublishOverridePath(kw, pos)
                          ELSE BuiltinPath(w, lk, article_to_post, get, post))

PublishWidgets ==
    {[widgets EXCEPT !.org_id_override = o, !.linkedin_key = l, !.dry_run = d] :
        o \in OrgIds, l \in LinkedinKeys, d \in BOOLEAN}

\* one script run with post_btn True and widget values w
PublishRun(w) ==
    LET lk == StrOr(w.linkedin_key, session_state.linkedin_key)
        reaches == session_state.generated_article # <<>> /\ lk # ""
        over == reaches /\ UsesPublishOverride
        builtin == reaches /\ ~UsesPublishOverride
    IN
    \E kw \in (IF over THEN PostOverrideOutcomes ELSE {PostNotCalled}) :
    \E pos \in (IF over /\ RetriesPositionally(kw) THEN PostOverrideOutcomes ELSE {PostNotCalled}) :
    \E get \in (IF builtin /\ w.org_id_override = "" THEN GetOutcomes ELSE {GetReturns(<<>>)}) :
    \E post \in (IF builtin /\ ~w.dry_run THEN PostOutcomes ELSE {Ret("json")}) :
        LET r == PublishHandler(session_state, w, get, kw, pos, post) IN
        /\ widgets' = w
        /\ session_state' = r.session_state
        /\ calls' = r.calls
        /\ payload' = r.payload
        /\ clicked' = "publish"
        /\ UNCHANGED <<file, env_vars, fn_vars>>

\* the publish button is pressed: it can be only where it was rendered
\* enabled (line 106), with the widget values it was rendered for
PublishClick ==
    /\ CanClick
    /\ \E w \in PublishWidgets : ~publish_disabled(w) /\ PublishRun(w)

Next == GenerateClick \/ PublishClick

Spec == Init /\ [][Next]_vars

(***************************************************************************)
(* The handlers taken alone: the publish handler body is run on every      *)
(* widget and session input, whatever the state of the button.             *)
(***************************************************************************)
PublishHandlerCall ==
    /\ CanClick
    /\ \E w \in PublishWidgets : PublishRun(w)

HandlerNext == GenerateClick \/ PublishHandlerCall

HandlerSpec == Init /\ [][HandlerNext]_vars


(***************************************************************************)
(* The helpers taken alone: each action applies one helper to arguments    *)
(* drawn from the bounded input sets and records its outcome.              *)
(***************************************************************************)
FnIdleNow == fn = "none"

CallSafeTruncate ==
    /\ FnIdleNow
    /\ \E text \in Texts, max_len \in Limits :
        /\ fn' = "safe_truncate"
        /\ fn_in' = [text |-> text, max_len |-> max_len]
        /\ fn_out' = SafeTruncate(text, max_len)
    /\ UNCHANGED <<env_vars, ui_vars>>

CallExtract ==
    /\ FnIdleNow
    /\ \E resp \in Responses :
        /\ fn' = "extract_text_from_gemini_response"
        /\ fn_in' = resp
        /\ fn_out' = extract_text_from_gemini_response(resp)
    /\ UNCHANGED <<env_vars, ui_vars>>

CallGenerateWithGemini ==
    /\ FnIdleNow
    /\ \E max_retries \in 0..MaxRetriesBound :
       \E backend \in Backends(max_retries) :
        /\ fn' = "generate_article_with_gemini"
        /\ fn_in' = [backend |-> backend, max_retries |-> max_retries]
        /\ fn_out' = generate_article_with_gemini(GENAI_AVAILABLE, backend, max_retries)
    /\ UNCHANGED <<env_vars, ui_vars>>

FnNext == CallSafeTruncate \/ CallExtract \/ CallGenerateWithGemini

FnSpec == Init /\ [][FnNext]_vars


(***************************************************************************)
(* Properties.                                                             *)
(***************************************************************************)
Started == {"[info] Generation started...", "[info] Publishing started..."}

\* the log lines appended by the last script run
LastRunLogs ==
    LET logs == session_state.logs
        starts == {i \in DOMAIN logs : logs[i].line \in Started}
    IN  IF starts = {} THEN <<>>
        ELSE SubSeq(logs, CHOOSE i \in starts : \A j \in starts : j <= i, Len(logs))

Logged(line) == \E i \in DOMAIN LastRunLogs : LastRunLogs[i].line = line
LastLine == LastRunLogs[Len(LastRunLogs)].line

IsPost(c) == c.op = "POST ugcPosts"
IsGet(c) == c.op = "GET organizationalEntityAcls"
IsPublishOverride(c) ==
    c.op \in {"post_to_linkedin(article, org_id=, linkedin_api_key=)",
              "post_to_linkedin(article, org_id=)"}
PostCalls == {i \in DOMAIN calls : IsPost(calls[i])}
GetCalls == {i \in DOMAIN calls : IsGet(calls[i])}
OverrideCalls == {i \in DOMAIN calls : IsPublishOverride(calls[i])}

\* C1: in every reachable state, the last script run has issued the
\* Publisher's POST or called the override's publish entrypoint only with
\* dry-run disabled and a non-empty platform credential.
C1_LiveOnlyWithKeyAndNoDryRun ==
    (PostCalls # {} \/ OverrideCalls # {}) =>
        /\ clicked = "publish"
        /\ ~widgets.dry_run
        /\ widgets.linkedin_key # ""
        /\ session_state.linkedin_key # ""

\* C1 witness: a publish run that went through the override's entrypoint
C1_Witness == clicked = "publish" /\ OverrideCalls # {} /\ ~widgets.dry_run

\* C2 (as stated, for a supplied organization id): after a publish run with
\* dry-run enabled, an article in session and a platform key present, the
\* payload has been built (author = "urn:li:organization:" + org id, text =
\* the truncated article), its preview has been logged, and nothing has been
\* submitted.
C2_DryRunLogsPayload ==
    ( /\ clicked = "publish"
      /\ widgets.dry_run
      /\ widgets.org_id_override # ""
      /\ session_state.generated_article # <<>>
      /\ session_state.linkedin_key # "" )
    =>
    ( /\ payload # NoPayload
      /\ payload.author = <<"urn:li:organization:", widgets.org_id_override>>
      /\ payload.shareCommentary =
             SafeTruncate(session_state.generated_article, MAX_LINKEDIN_COMMENTARY_LENGTH)
      /\ \E i \in DOMAIN LastRunLogs :
             LastRunLogs[i].line = "json.dumps(payload)" /\ LastRunLogs[i].arg = payload
      /\ PostCalls = {} /\ OverrideCalls = {} )

\* C3: a publish run with no article in session appends the refusal line
\* and makes no collaborator call; one with an article but neither an entered
\* nor a cached platform key appends the key-missing error and makes no
\* collaborator call either (so the resolver is never asked).
C3_PublishRefusal ==
    clicked = "publish" =>
        /\ session_state.generated_article = <<>> =>
              /\ LastRunLogs = <<Log("[info] Publishing started...", <<>>),
                                 Log("[warn] No generated article found. Generate first.", <<>>)>>
              /\ calls = <<>> /\ payload = NoPayload
        /\ (session_state.generated_article # <<>> /\ session_state.linkedin_key = "") =>
              /\ widgets.linkedin_key = ""
              /\ LastRunLogs = <<Log("[info] Publishing started...", <<>>),
                    Log("[error] LinkedIn API key missing. Provide token in API Keys field.", <<>>)>>
              /\ calls = <<>> /\ payload = NoPayload

\* C3 witness: the handler ran with an article and no key anywhere
C3_Witness ==
    /\ clicked = "publish"
    /\ session_state.generated_article # <<>>
    /\ session_state.linkedin_key = ""
    /\ ~BACKEND_MODULE


\* the attempt of the retry loop fails: the call raises, or no text can be
\* extracted from what it returns
C4_Fails(o) == o.exc # "" \/ extract_text_from_gemini_response(o.resp).v = PyNone

\* attempt 1, sleep 1, attempt 2, sleep 2, ..., attempt n
C4_Trace(n) ==
    [i \in 1..(2 * n - 1) |-> IF i % 2 = 1 THEN EvAttempt((i + 1) \div 2) ELSE EvSleep(i \div 2)]

C5_ExactLength ==
    (fn = "safe_truncate" /\ Len(fn_in.text) > fn_in.max_len) =>
        /\ Len(fn_out) = fn_in.max_len
        /\ SubSeq(fn_out, Len(fn_out) - 2, Len(fn_out)) = <<".", ".", ".">>

\* C5 (amended): for every text longer than the limit the result is at most
\* limit units long and ends with the ellipsis; it is exactly limit units
\* long if and only if the last kept unit (position limit - 3) is not
\* whitespace.
C5_AtMostLimit ==
    (fn = "safe_truncate" /\ Len(fn_in.text) > fn_in.max_len) =>
        LET kept == fn_in.max_len - 3 IN
        /\ Len(fn_out) <= fn_in.max_len
        /\ Len(fn_out) >= 3
        /\ SubSeq(fn_out, Len(fn_out) - 2, Len(fn_out)) = <<".", ".", ".">>
        /\ (Len(fn_out) = fn_in.max_len) <=> (kept = 0 \/ fn_in.text[kept] \notin {" ", "\n", "\t"})

\* C5 witness: a long text whose last kept unit is whitespace
C5_Witness ==
    /\ fn = "safe_truncate" /\ Len(fn_in.text) > fn_in.max_len
    /\ fn_in.max_len > 3
    /\ fn_in.text[fn_in.max_len - 3] = " "
    /\ Len(fn_out) < fn_in.max_len


\* "# Prompt\n" + X + "\n\n" + MOCK_ARTICLE
C6_Expected(x) == <<"# Prompt", "\n">> \o x \o <<"\n", "\n">> \o MOCK_ARTICLE

\* C6 (as stated): after a generate run for prompt X with no generation key
\* in session and the client library unavailable, the session article is
\* "# Prompt\n" + X + "\n\n" + MOCK_ARTICLE.
C6_MockArticle ==
    (clicked = "generate" /\ session_state.gemini_key = "" /\ ~GENAI_AVAILABLE) =>
        session_state.generated_article = C6_Expected(widgets.prompt)

\* C6 (amended): the same, provided no backend override exposing
\* generate_article has been imported.
C6_MockArticleWithoutOverride ==
    ( /\ clicked = "generate" /\ session_state.gemini_key = "" /\ ~GENAI_AVAILABLE
      /\ ~(BACKEND_MODULE /\ "generate_article" \in backend_attrs) )
    => session_state.generated_article = C6_Expected(widgets.prompt)

\* C6 witness: prompt "X", no key, no client library, no override
C6_Witness ==
    /\ clicked = "generate" /\ session_state.gemini_key = "" /\ ~GENAI_AVAILABLE
    /\ ~BACKEND_MODULE
    /\ widgets.prompt = <<"X">>
    /\ session_state.generated_article = C6_Expected(<<"X">>)

\* the texts a generate run for prompt x can produce
C7_TextsFor(x) ==
    {C6_Expected(x),
     <<"# Prompt", "\n">> \o x \o <<"\n", "\n">>
         \o <<"Generated article placeholder. Replace with a real generator.">>,
     <<"custom article">>,
     <<"generated">>}

\* C7 (as stated): every generate run ends with the session article
\* overwritten by a text produced in that run.
C7_AlwaysOverwritten ==
    clicked = "generate" => session_state.generated_article \in C7_TextsFor(widgets.prompt)

\* C7 (amended): a generate run in which a text is produced (the override
\* returns, the Generation Client succeeds, or the placeholder is built)
\* ends with the session article overwritten by that text, also when the
\* save file cannot be written (which is logged); a run in which the
\* override raises logs "[error] Generation failed:" and leaves the article
\* and the save file as they were.
C7_OverwrittenUnlessOverrideRaises ==
    [][ clicked' = "generate" =>
          LET logs == session_state'.logs
              failed == logs[Len(logs)].line = "[error] Generation failed:"
              viaOverride == \E i \in DOMAIN logs \ DOMAIN session_state.logs :
                  logs[i].line = "[info] Using external backend module for generation."
              viaMock == \E i \in DOMAIN logs \ DOMAIN session_state.logs :
                  logs[i].line \in {"[info] Using local mock generation (no Gemini client or key).",
                                    "[warn] Gemini generation failed. Falling back to mock."}
              viaGemini == \E i \in DOMAIN logs \ DOMAIN session_state.logs :
                  logs[i].line = "[info] Gemini generation succeeded."
          IN  IF failed
              THEN /\ viaOverride
                   /\ session_state'.generated_article = session_state.generated_article
                   /\ file' = file
              ELSE /\ session_state'.generated_article \in C7_TextsFor(widgets'.prompt)
                   /\ viaMock => session_state'.generated_article = C6_Expected(widgets'.prompt)
                   /\ viaGemini => session_state'.generated_article = <<"generated">>
                   /\ logs[Len(logs)].line = "[error] Could not save file:" => file' = file
                   /\ logs[Len(logs)].line = "[success] Saved generated article to" =>
                          file' = session_state'.generated_article
      ]_vars

\* C7 witness: a second generate run, for another prompt, has replaced a
\* previous article although the save file could not be written
C7_Witness ==
    /\ clicked = "generate"
    /\ Len(LastRunLogs) < Len(session_state.logs)
    /\ \E i \in DOMAIN session_state.logs :
           /\ i <= Len(session_state.logs) - Len(LastRunLogs)
           /\ session_state.logs[i].line = "[info] Using local mock generation (no Gemini client or key)."
    /\ widgets.prompt = <<"X">>
    /\ LastLine = "[error] Could not save file:"
    /\ session_state.generated_article = C6_Expected(<<"X">>)


\* the GET of the resolver raised, or the resolver returned None
C9_ResolverFailed(c) == IsGet(c) /\ (c.exc # "" \/ c.val = OrgNone)

\* C9: on the built-in publish path, a run whose resolver raises or returns
\* absence logs the error and builds no payload and issues no POST; a run
\* with a non-empty organization id override issues no GET, and a run that
\* does issue the GET had no override.
C9_ResolutionFailureAborts ==
    clicked = "publish" =>
        /\ (\E i \in GetCalls : C9_ResolverFailed(calls[i])) =>
              /\ Logged("[error] Could not auto-detect org id:")
              /\ LastLine \in {"[http-error]", "[error] Publishing failed:"}
              /\ payload = NoPayload
              /\ PostCalls = {}
              /\ Cardinality(GetCalls) = 1
        /\ widgets.org_id_override # "" => GetCalls = {}
        /\ GetCalls # {} => OverrideCalls = {}

\* C9 witness: the resolver found no organization
C9_Witness ==
    /\ clicked = "publish"
    /\ \E i \in DOMAIN calls : IsGet(calls[i]) /\ calls[i].exc = "" /\ calls[i].val = OrgNone
    /\ widgets.org_id_override = ""

\* a submission of the post: the Publisher's POST, or a call of the
\* override's publish entrypoint that reached the platform
C10_Submission(c) == IsPost(c) \/ (IsPublishOverride(c) /\ c.live)

\* C10 (as stated): a publish run submits the post at most once, and a
\* failed submission ends the run with an [http-error] or [error] line.
C10_NoRetry ==
    clicked = "publish" =>
        /\ Cardinality({i \in DOMAIN calls : C10_Submission(calls[i])}) <= 1
        /\ (\E i \in DOMAIN calls : C10_Submission(calls[i]) /\ calls[i].exc # "") =>
               LastLine \in {"[http-error]", "[error] Publishing failed:"}


\* The probes of the four rules of the extractor, in their fixed order.  A
\* probe is [x |-> value, attr |-> whether it is read as an attribute]; for
\* rule 3 the list is the value under the first of "candidates", "outputs",
\* "choices" that holds a non-empty value.
C8_P(x, attr) == [x |-> x, attr |-> attr]
C8_Rule1(r) == <<C8_P(r.a_text, TRUE)>>
C8_Rule2(r) == IF r.is_dict THEN <<C8_P(r.k_text, FALSE), C8_P(r.k_content, FALSE)>> ELSE <<>>
C8_Rule3(r) ==
    LET nonEmpty(x) == x.t \in {"num", "raise"} \/ (x.t \in {"str", "list"} /\ Len(x.v) > 0)
        l == IF nonEmpty(r.k_candidates) THEN r.k_candidates
             ELSE IF nonEmpty(r.k_outputs) THEN r.k_outputs ELSE r.k_choices
    IN  IF r.is_dict /\ l.t = "list" /\ Len(l.v) > 0
        THEN LET e == Head(l.v) IN
             CASE e.kind = "dict" ->
                      <<C8_P(e.output, FALSE), C8_P(e.content, FALSE), C8_P(e.text, FALSE)>>
               [] e.kind = "str" -> <<C8_P([t |-> "str", v |-> e.s], FALSE)>>
               [] OTHER -> <<>>
        ELSE <<>>
C8_Rule4(r) ==
    IF r.a_candidates.t = "raise" THEN <<C8_P(r.a_candidates, TRUE)>>
    ELSE IF r.a_candidates.t = "list" /\ Len(r.a_candidates.v) > 0
    THEN LET e == Head(r.a_candidates.v) IN
         IF e.kind = "obj"
         THEN <<C8_P(e.content, TRUE), C8_P(e.output, TRUE), C8_P(e.text, TRUE)>>
         ELSE <<>>
    ELSE <<>>

\* the text with the whitespace at both ends removed
C8_Trim(s) ==
    LET keep == {i \in DOMAIN s : s[i] \notin {" ", "\n", "\t"}} IN
    IF keep = {} THEN <<>>
    ELSE LET lo == CHOOSE i \in keep : \A j \in keep : i <= j
             hi == CHOOSE i \in keep : \A j \in keep : j <= i
         IN  SubSeq(s, lo, hi)

C8_Hit(p) == p.x.t = "str" /\ C8_Trim(p.x.v) # <<>>
C8_Fault(p) == p.attr /\ p.x.t = "raise"

\* the result the four rules prescribe: the trimmed string of the first
\* probe that matches; absence if none matches or a probe faults first
C8_Expected(r) ==
    LET ps == C8_Rule1(r) \o C8_Rule2(r) \o C8_Rule3(r) \o C8_Rule4(r)
        hits == {i \in DOMAIN ps : C8_Hit(ps[i]) \/ C8_Fault(ps[i])}
    IN  IF hits = {} THEN PyNone
        ELSE LET i == CHOOSE i \in hits : \A j \in hits : i <= j IN
             IF C8_Fault(ps[i]) THEN PyNone ELSE [t |-> "str", v |-> C8_Trim(ps[i].x.v)]

\* C8: the extractor never raises; it returns the trimmed, non-empty string
\* of the first of its four rules, taken in order, that matches, and
\* absence when no rule matches (the empty mapping among them) or when a
\* probed attribute faults before any rule has matched.
C8_ExtractionOrder ==
    fn = "extract_text_from_gemini_response" =>
        /\ fn_out.k = "return"
        /\ fn_out.v = C8_Expected(fn_in)
        /\ fn_out.v.t = "str" =>
              /\ fn_out.v.v # <<>>
              /\ fn_out.v.v[1] \notin {" ", "\n", "\t"}
              /\ fn_out.v.v[Len(fn_out.v.v)] \notin {" ", "\n", "\t"}
        /\ fn_in = EmptyMapping => fn_out.v = PyNone

\* C8 witness: a mapping with an attribute list as well, where rule 3 finds
\* "output" ahead of "text" and ahead of rule 4
C8_Witness ==
    /\ fn = "extract_text_from_gemini_response"
    /\ fn_in.is_dict
    /\ fn_in.k_candidates = ListV(<<GoodDictElem>>)
    /\ fn_in.a_candidates = ListV(<<GoodObjElem>>)
    /\ fn_out = Ret(StrV(<<"first[output]">>))

=============================================================================
